---- MODULE Spec2Model ----
(***************************************************************************)
(* Content Manager (host side, src/services/content/ContentManager.ts) and *)
(* the useRefreshableContent hook (webview side).                          *)
(*                                                                         *)
(* A string is a sequence of one-character strings.  The file system holds *)
(* one file per resolvable content path.  Every asynchronous ContentManager *)
(* call is a record in `calls` whose pc names the await it is suspended at, *)
(* so calls interleave at their awaits as they do on the host event loop.  *)
(***************************************************************************)
EXTENDS Integers, Sequences, FiniteSets, TLC

\* ---- bounds ----
MaxCalls == 1        \* ContentManager calls in flight at once
MaxOverlap == 2      \* overlapping refreshContent / updateContent calls in the race
MaxChan == 1         \* messages queued in one direction of the channel
MaxTimers == 2       \* pending setTimeout callbacks
TickMs == 1500       \* largest advance of the simulated clock in one step

\* ---- values ----
\* the texts written and stored: empty, blank, trimmed, padded on both sides
Strings == {<<>>, <<" ">>, <<"a">>, <<" ", "a", "\n">>}
Undefined == <<"undefined">>      \* JS undefined: a value outside Strings
EmptyString == <<>>

customInstructions == "customInstructions"          \* GlobalContentIds.customInstructions
settingsDir == "settings"                           \* getSettingsDirectoryPath(globalStoragePath)
customInstructionsFile == <<settingsDir, "custom_instructions.md">>     \* path.join
ContentIds == {customInstructions, "unknownId"}
Paths == {customInstructionsFile}

IsWhiteSpace(c) == c \in {" ", "\n"}

RECURSIVE TrimStart(_)
TrimStart(s) ==
    IF s = <<>> THEN s
    ELSE IF IsWhiteSpace(Head(s)) THEN TrimStart(Tail(s)) ELSE s

RECURSIVE TrimEnd(_)
TrimEnd(s) ==
    IF s = <<>> THEN s
    ELSE IF IsWhiteSpace(s[Len(s)]) THEN TrimEnd(SubSeq(s, 1, Len(s) - 1)) ELSE s

\* String.prototype.trim
Trim(s) == TrimEnd(TrimStart(s))

\* the truthiness test without the trim: `content`
NonBlankNoTrim(content) == content # Undefined /\ content # EmptyString

\* JS truthiness of `content && content.trim()`
NonBlank(content) == content # Undefined /\ content # EmptyString /\ Trim(content) # EmptyString

VARIABLES
    files,               \* file system: path -> content, or Undefined when the file is absent
    activeEditor,        \* path shown in the editor, or Undefined
    calls,               \* ContentManager calls in flight or finished and not yet returned
    lastFsOp,            \* the latest mutation of the file system
    toUI,                \* host -> webview messages, in send order
    toHost,              \* webview -> host messages, in send order
    mounted,             \* a component using the hook is mounted
    contentId,           \* the hook's contentId argument
    isRefreshing,        \* useState(false)
    showRefreshSuccess,  \* useState(false)
    timers,              \* pending setTimeout callbacks, oldest first
    lastEvent            \* the latest step of the hook, with the state it started from

hostVars == <<files, activeEditor, calls, lastFsOp>>
uiVars == <<mounted, contentId, isRefreshing, showRefreshSuccess, timers, lastEvent>>
vars == <<files, activeEditor, calls, lastFsOp, toUI, toHost,
          mounted, contentId, isRefreshing, showRefreshSuccess, timers, lastEvent>>

\* ---- ContentManager ----

\* getContentPath with the default case falling through to the registered file
getContentPathFallThrough(id) == customInstructionsFile

\* getContentPath: the switch over the registry
getContentPath(id) ==
    IF id = customInstructions THEN customInstructionsFile ELSE Undefined

\* the log lines getContentPath writes
getContentPathLog(id) ==
    IF id = customInstructions THEN <<>> ELSE <<"Unknown contentId">>

\* safeReadFile: the text of the file, or undefined when it is absent
safeReadFile(path) == files[path]

\* readContent's return value
readContentValue(id) ==
    LET filePath == getContentPath(id)
    IN  IF filePath # Undefined
        THEN (IF safeReadFile(filePath) # Undefined THEN safeReadFile(filePath) ELSE EmptyString)
        ELSE EmptyString

\* outcomes of fs.writeFile and fs.unlink
WriteOutcomes == {"ok", "EACCES"}
UnlinkOutcomes(path) ==
    (IF files[path] = Undefined THEN {"ENOENT"} ELSE {"ok"}) \cup {"EPERM"}

NewCall(op, id, content, pc) ==
    [op |-> op, contentId |-> id, content |-> content, pc |-> pc,
     result |-> Undefined, branch |-> "none", outcome |-> "none",
     logs |-> <<>>, pushes |-> 0, msgs |-> 0, success |-> TRUE,
     raised |-> FALSE, fsMutated |-> FALSE, interleaved |-> FALSE]

\* call i takes a step to c: every other call not yet returned has been interleaved with
StepCall(i, c) ==
    [j \in DOMAIN calls |->
        IF j = i THEN c ELSE [calls[j] EXCEPT !.interleaved = TRUE]]

\* a step outside the calls touches the file system
Disturbed ==
    [j \in DOMAIN calls |-> [calls[j] EXCEPT !.interleaved = TRUE]]

RemoveAt(s, i) == SubSeq(s, 1, i - 1) \o SubSeq(s, i + 1, Len(s))

\* an operation starts and runs to its first await
Start(op, id, content) ==
    calls' = Append(calls,
            NewCall(op, id, content,
                    CASE op = "readContent" -> "read"
                      [] op = "refreshContent" -> "read"
                      [] op = "updateContent" -> "update"
                      [] op = "openContent" -> "open"))

\* the caller invokes an operation
Invoke(op, id, content) ==
    /\ Len(calls) < MaxCalls
    /\ Start(op, id, content)

InvokeReadContent ==
    /\ \E id \in ContentIds : Invoke("readContent", id, Undefined)
    /\ UNCHANGED <<files, activeEditor, lastFsOp, toUI, toHost>>
    /\ UNCHANGED uiVars

InvokeUpdateContent ==
    /\ \E id \in ContentIds, content \in Strings \cup {Undefined} :
            Invoke("updateContent", id, content)
    /\ UNCHANGED <<files, activeEditor, lastFsOp, toUI, toHost>>
    /\ UNCHANGED uiVars

InvokeOpenContent ==
    /\ \E id \in ContentIds : Invoke("openContent", id, Undefined)
    /\ UNCHANGED <<files, activeEditor, lastFsOp, toUI, toHost>>
    /\ UNCHANGED uiVars

InvokeRefreshContent ==
    /\ \E id \in ContentIds : Invoke("refreshContent", id, Undefined)
    /\ UNCHANGED <<files, activeEditor, lastFsOp, toUI, toHost>>
    /\ UNCHANGED uiVars

\* a refreshContent that does not hand the text it read to updateContent
ReadStepDropsContent(i) ==
    LET c == calls[i]
        value == readContentValue(c.contentId)
        logged == [c EXCEPT !.logs = c.logs \o getContentPathLog(c.contentId)]
    IN  /\ c.pc = "read"
        /\ calls' = StepCall(i,
                IF c.op = "readContent"
                THEN [logged EXCEPT !.result = value, !.pc = "done"]
                ELSE [logged EXCEPT !.pc = "update"])
        /\ UNCHANGED <<files, activeEditor, lastFsOp, toUI, toHost>>
        /\ UNCHANGED uiVars

\* readContent: `await getContentPath`, then `await safeReadFile`
ReadStep(i) ==
    LET c == calls[i]
        value == readContentValue(c.contentId)
        logged == [c EXCEPT !.logs = c.logs \o getContentPathLog(c.contentId)]
    IN  /\ c.pc = "read"
        /\ calls' = StepCall(i,
                IF c.op = "readContent"
                THEN [logged EXCEPT !.result = value, !.pc = "done"]
                ELSE [logged EXCEPT !.content = value, !.pc = "update"])
        /\ UNCHANGED <<files, activeEditor, lastFsOp, toUI, toHost>>
        /\ UNCHANGED uiVars

\* the text handed to fs.writeFile without the trim
writtenTextRaw(content) == content

\* the text updateContent hands to fs.writeFile
writtenText(content) == Trim(content)

\* a catch block that swallows every unlink failure
swallowedAll(code) == TRUE

\* a catch block that re-raises every unlink failure
swallowedNone(code) == FALSE

\* the unlink failures the catch block swallows
swallowed(code) == code = "ENOENT"

\* updateContent up to the completion of fs.writeFile / fs.unlink
UpdateStep(i) ==
    LET c == calls[i]
        filePath == getContentPath(c.contentId)
    IN  /\ c.pc = "update"
        /\ IF filePath = Undefined
           THEN /\ calls' = StepCall(i,
                        [c EXCEPT !.logs = c.logs \o getContentPathLog(c.contentId)
                                                  \o <<"File path could not be determined">>,
                                  !.pc = IF c.op = "refreshContent" THEN "emit" ELSE "done"])
                /\ UNCHANGED <<files, lastFsOp>>
           ELSE IF NonBlank(c.content)
           THEN \E o \in WriteOutcomes :
                    IF o = "ok"
                    THEN /\ files' = [files EXCEPT ![filePath] = writtenText(c.content)]
                         /\ lastFsOp' = [kind |-> "write", arg |-> c.content]
                         /\ calls' = StepCall(i,
                                [c EXCEPT !.branch = "write", !.outcome = o,
                                          !.fsMutated = TRUE, !.pc = "push"])
                    ELSE /\ calls' = StepCall(i,
                                [c EXCEPT !.branch = "write", !.outcome = o,
                                          !.raised = TRUE, !.pc = "done"])
                         /\ UNCHANGED <<files, lastFsOp>>
           ELSE \E o \in UnlinkOutcomes(filePath) :
                    CASE o = "ok" ->
                         /\ files' = [files EXCEPT ![filePath] = Undefined]
                         /\ lastFsOp' = [kind |-> "unlink", arg |-> Undefined]
                         /\ calls' = StepCall(i,
                                [c EXCEPT !.branch = "delete", !.outcome = o,
                                          !.fsMutated = TRUE, !.pc = "push"])
                      [] o # "ok" /\ swallowed(o) ->
                         /\ calls' = StepCall(i,
                                [c EXCEPT !.branch = "delete", !.outcome = o, !.pc = "push"])
                         /\ UNCHANGED <<files, lastFsOp>>
                      [] OTHER ->
                         /\ calls' = StepCall(i,
                                [c EXCEPT !.branch = "delete", !.outcome = o,
                                          !.logs = c.logs \o <<"Error deleting content file">>,
                                          !.raised = TRUE, !.pc = "done"])
                         /\ UNCHANGED <<files, lastFsOp>>
        /\ UNCHANGED <<activeEditor, toUI, toHost>>
        /\ UNCHANGED uiVars

\* the log line of the branch taken
branchLog(c) ==
    IF c.outcome # "ok" THEN <<>>
    ELSE IF c.branch = "write" THEN <<"Updated content file">>
    ELSE <<"Deleted content file">>

\* updateContent with the state push inside the write branch only
PushStepWriteOnly(i) ==
    LET c == calls[i]
    IN  /\ c.pc = "push"
        /\ Len(toUI) < MaxChan
        /\ toUI' = IF c.branch = "write" THEN Append(toUI, [type |-> "state"]) ELSE toUI
        /\ calls' = StepCall(i,
                [c EXCEPT !.logs = c.logs \o branchLog(c),
                          !.pushes = IF c.branch = "write" THEN c.pushes + 1 ELSE c.pushes,
                          !.pc = IF c.op = "refreshContent" THEN "emit" ELSE "done"])
        /\ UNCHANGED <<files, activeEditor, lastFsOp, toHost>>
        /\ UNCHANGED uiVars

\* updateContent after the file operation: the log line, then `await postStateToWebview()`
PushStep(i) ==
    LET c == calls[i]
    IN  /\ c.pc = "push"
        /\ Len(toUI) < MaxChan
        /\ toUI' = Append(toUI, [type |-> "state"])
        /\ calls' = StepCall(i,
                [c EXCEPT !.logs = c.logs \o branchLog(c),
                          !.pushes = c.pushes + 1,
                          !.pc = IF c.op = "refreshContent" THEN "emit" ELSE "done"])
        /\ UNCHANGED <<files, activeEditor, lastFsOp, toHost>>
        /\ UNCHANGED uiVars

\* a contentRefreshed message reporting failure
refreshedMessageFailed(id) ==
    [type |-> "contentRefreshed", contentId |-> id, success |-> FALSE]

\* a contentRefreshed message that reports success for registered ids only
refreshedMessageUnknownFails(id) ==
    [type |-> "contentRefreshed", contentId |-> id, success |-> (id = customInstructions)]

\* the message refreshContent posts
refreshedMessage(id) ==
    [type |-> "contentRefreshed", contentId |-> id, success |-> TRUE]

\* refreshContent returning without postMessageToWebview
EmitStepSilent(i) ==
    LET c == calls[i]
    IN  /\ c.pc = "emit"
        /\ calls' = StepCall(i, [c EXCEPT !.pc = "done"])
        /\ UNCHANGED <<files, activeEditor, lastFsOp, toUI, toHost>>
        /\ UNCHANGED uiVars

\* refreshContent posting its message without waiting for the state push
EmitStepEarly(i) ==
    LET c == calls[i]
    IN  /\ c.pc \in {"push", "emit"}
        /\ c.op = "refreshContent"
        /\ Len(toUI) < MaxChan
        /\ toUI' = Append(toUI, refreshedMessage(c.contentId))
        /\ calls' = StepCall(i,
                [c EXCEPT !.msgs = c.msgs + 1,
                          !.success = refreshedMessage(c.contentId).success,
                          !.pc = "done"])
        /\ UNCHANGED <<files, activeEditor, lastFsOp, toHost>>
        /\ UNCHANGED uiVars

\* refreshContent after `await updateContent`: postMessageToWebview
EmitStep(i) ==
    LET c == calls[i]
    IN  /\ c.pc = "emit"
        /\ Len(toUI) < MaxChan
        /\ toUI' = Append(toUI, refreshedMessage(c.contentId))
        /\ calls' = StepCall(i,
                [c EXCEPT !.msgs = c.msgs + 1,
                          !.success = refreshedMessage(c.contentId).success,
                          !.pc = "done"])
        /\ UNCHANGED <<files, activeEditor, lastFsOp, toHost>>
        /\ UNCHANGED uiVars

\* openFile(filePath, {create: true}): an absent file is created empty, the file is shown
openFile(path) ==
    /\ files' = [files EXCEPT ![path] = IF files[path] = Undefined THEN EmptyString ELSE files[path]]
    /\ lastFsOp' = IF files[path] = Undefined
                   THEN [kind |-> "create", arg |-> Undefined] ELSE lastFsOp
    /\ activeEditor' = path

OpenStep(i) ==
    LET c == calls[i]
        filePath == getContentPath(c.contentId)
    IN  /\ c.pc = "open"
        /\ IF filePath = Undefined
           THEN /\ calls' = StepCall(i,
                        [c EXCEPT !.logs = c.logs \o getContentPathLog(c.contentId)
                                                  \o <<"File path could not be determined">>,
                                  !.pc = "done"])
                /\ UNCHANGED <<files, activeEditor, lastFsOp>>
           ELSE /\ openFile(filePath)
                /\ calls' = StepCall(i,
                        [c EXCEPT !.fsMutated = (files[filePath] = Undefined), !.pc = "done"])
        /\ UNCHANGED <<toUI, toHost>>
        /\ UNCHANGED uiVars

\* the promise of a finished call settles and the caller drops it
Return(i) ==
    /\ calls[i].pc = "done"
    /\ calls' = RemoveAt(calls, i)
    /\ UNCHANGED <<files, activeEditor, lastFsOp, toUI, toHost>>
    /\ UNCHANGED uiVars

\* the user saves the document shown in the editor
UserSavesFile ==
    /\ activeEditor # Undefined
    /\ \E text \in Strings :
            /\ files' = [files EXCEPT ![activeEditor] = text]
            /\ lastFsOp' = [kind |-> "edit", arg |-> text]
    /\ calls' = Disturbed
    /\ UNCHANGED <<activeEditor, toUI, toHost>>
    /\ UNCHANGED uiVars

\* ---- useRefreshableContent ----

BannerDelayMs == 3000      \* setTimeout(..., 3000)

Messages ==
    {[type |-> "state"]} \cup
    [type : {"contentRefreshed"}, contentId : ContentIds, success : BOOLEAN]

Min(a, b) == IF a < b THEN a ELSE b

\* a timer remembers whether the effect that started it has been cleaned up since
NewTimer == [elapsed |-> 0, origin |-> "current"]

\* a clean-up function that also clears every pending timer of the instance
effectCleanupClearsTimers(reason) ==
    SelectSeq(timers, LAMBDA t : t.origin = "unmounted")

\* the clean-up function of the effect: removeEventListener, and nothing else
effectCleanup(reason) ==
    [k \in DOMAIN timers |->
        IF timers[k].origin = "unmounted" THEN timers[k]
        ELSE [timers[k] EXCEPT !.origin = reason]]

\* the component mounts: useState(false) twice, the effect subscribes
Mount ==
    /\ ~mounted
    /\ \E id \in ContentIds : contentId' = id
    /\ mounted' = TRUE
    /\ isRefreshing' = FALSE
    /\ showRefreshSuccess' = FALSE
    /\ lastEvent' = "mount"
    /\ UNCHANGED <<timers, toUI, toHost>>
    /\ UNCHANGED hostVars

\* the component unmounts: the effect's clean-up runs, the state is dropped
Unmount ==
    /\ mounted
    /\ mounted' = FALSE
    /\ timers' = effectCleanup("unmounted")
    /\ isRefreshing' = FALSE
    /\ showRefreshSuccess' = FALSE
    /\ lastEvent' = "unmount"
    /\ UNCHANGED <<contentId, toUI, toHost>>
    /\ UNCHANGED hostVars

\* the component re-renders with another contentId: the effect's clean-up runs and the
\* effect subscribes again; the two useState cells are kept
Rebind ==
    /\ mounted
    /\ \E id \in ContentIds \ {contentId} : contentId' = id
    /\ timers' = effectCleanup("rebound")
    /\ lastEvent' = "rebind"
    /\ UNCHANGED <<mounted, isRefreshing, showRefreshSuccess, toUI, toHost>>
    /\ UNCHANGED hostVars

\* a refreshContent callback that posts the request without setIsRefreshing(true)
RefreshActionNoFlag ==
    /\ mounted
    /\ Len(toHost) < MaxChan
    /\ toHost' = Append(toHost, [type |-> "refreshContent", contentId |-> contentId])
    /\ lastEvent' = "refresh"
    /\ UNCHANGED <<mounted, contentId, isRefreshing, showRefreshSuccess, timers, toUI>>
    /\ UNCHANGED hostVars

\* the refreshContent callback
RefreshAction ==
    /\ mounted
    /\ Len(toHost) < MaxChan
    /\ isRefreshing' = TRUE
    /\ toHost' = Append(toHost, [type |-> "refreshContent", contentId |-> contentId])
    /\ lastEvent' = "refresh"
    /\ UNCHANGED <<mounted, contentId, showRefreshSuccess, timers, toUI>>
    /\ UNCHANGED hostVars

\* the outer if without the comparison of contentId
MatchesAnyId(message) == message.type = "contentRefreshed"

\* the condition of handleMessage's outer if
Matches(message) ==
    /\ message.type = "contentRefreshed"
    /\ message.contentId = contentId

\* handleMessage without the setTimeout
handleMessageNoTimer(message) ==
    IF Matches(message)
    THEN /\ isRefreshing' = FALSE
         /\ IF message.success
            THEN /\ showRefreshSuccess' = TRUE
                 /\ lastEvent' = "success"
                 /\ UNCHANGED timers
            ELSE /\ lastEvent' = "failure"
                 /\ UNCHANGED <<showRefreshSuccess, timers>>
    ELSE /\ lastEvent' = "ignored"
         /\ UNCHANGED <<isRefreshing, showRefreshSuccess, timers>>

\* handleMessage without the test of message.success
handleMessageAlwaysBanner(message) ==
    IF Matches(message)
    THEN /\ isRefreshing' = FALSE
         /\ showRefreshSuccess' = TRUE
         /\ timers' = Append(timers, NewTimer)
         /\ lastEvent' = IF message.success THEN "success" ELSE "failure"
    ELSE /\ lastEvent' = "ignored"
         /\ UNCHANGED <<isRefreshing, showRefreshSuccess, timers>>

\* handleMessage keeping isRefreshing while a request is still queued
handleMessageKeepsPending(message) ==
    IF Matches(message)
    THEN /\ isRefreshing' = (toHost # <<>>)
         /\ IF message.success
            THEN /\ showRefreshSuccess' = TRUE
                 /\ timers' = Append(timers, NewTimer)
                 /\ lastEvent' = "success"
            ELSE /\ lastEvent' = "failure"
                 /\ UNCHANGED <<showRefreshSuccess, timers>>
    ELSE /\ lastEvent' = "ignored"
         /\ UNCHANGED <<isRefreshing, showRefreshSuccess, timers>>

\* handleMessage; the function it returns is dropped by the event dispatcher
handleMessage(message) ==
    IF Matches(message)
    THEN /\ isRefreshing' = FALSE
         /\ IF message.success
            THEN /\ showRefreshSuccess' = TRUE
                 /\ timers' = Append(timers, NewTimer)
                 /\ lastEvent' = "success"
            ELSE /\ lastEvent' = "failure"
                 /\ UNCHANGED <<showRefreshSuccess, timers>>
    ELSE /\ lastEvent' = "ignored"
         /\ UNCHANGED <<isRefreshing, showRefreshSuccess, timers>>

\* the window dispatches the next message event
WindowMessage ==
    /\ toUI # <<>>
    /\ toUI' = Tail(toUI)
    /\ IF mounted
       THEN /\ Matches(Head(toUI)) /\ Head(toUI).success => Len(timers) < MaxTimers
            /\ handleMessage(Head(toUI))
       ELSE UNCHANGED <<isRefreshing, showRefreshSuccess, timers, lastEvent>>
    /\ UNCHANGED <<mounted, contentId, toHost>>
    /\ UNCHANGED hostVars

\* the clock advances, never past the expiry of a pending timer
Tick ==
    /\ timers # <<>>
    /\ timers[1].elapsed < BannerDelayMs
    /\ LET d == Min(TickMs, BannerDelayMs - timers[1].elapsed)
       IN  timers' = [k \in DOMAIN timers |-> [timers[k] EXCEPT !.elapsed = @ + d]]
    /\ lastEvent' = "tick"
    /\ UNCHANGED <<mounted, contentId, isRefreshing, showRefreshSuccess, toUI, toHost>>
    /\ UNCHANGED hostVars

\* the oldest timer expires: setShowRefreshSuccess(false) on the instance that started it
TimerFires ==
    /\ timers # <<>>
    /\ timers[1].elapsed = BannerDelayMs
    /\ timers' = Tail(timers)
    /\ showRefreshSuccess' =
            IF timers[1].origin = "unmounted" THEN showRefreshSuccess ELSE FALSE
    /\ lastEvent' = IF timers[1].origin = "current" THEN "timer" ELSE "staleTimer"
    /\ UNCHANGED <<mounted, contentId, isRefreshing, toUI, toHost>>
    /\ UNCHANGED hostVars

\* ---- the channel's other ends ----

\* the host posts a message to the webview
HostPosts ==
    /\ Len(toUI) < MaxChan
    /\ \E m \in Messages : toUI' = Append(toUI, m)
    /\ UNCHANGED toHost
    /\ UNCHANGED hostVars
    /\ UNCHANGED uiVars

\* the host takes the next request off the channel
HostReceives ==
    /\ toHost # <<>>
    /\ toHost' = Tail(toHost)
    /\ UNCHANGED toUI
    /\ UNCHANGED hostVars
    /\ UNCHANGED uiVars

\* the host's message handler dispatches a refreshContent request to the ContentManager
DispatchRefresh ==
    /\ toHost # <<>>
    /\ toHost' = Tail(toHost)
    /\ Invoke("refreshContent", Head(toHost).contentId, Undefined)
    /\ UNCHANGED <<files, activeEditor, lastFsOp, toUI>>
    /\ UNCHANGED uiVars

\* ---- specifications ----

Init ==
    /\ files = [p \in Paths |-> Undefined]
    /\ activeEditor = Undefined
    /\ calls = <<>>
    /\ lastFsOp = [kind |-> "none", arg |-> Undefined]
    /\ toUI = <<>>
    /\ toHost = <<>>
    /\ mounted = FALSE
    /\ contentId = customInstructions
    /\ isRefreshing = FALSE
    /\ showRefreshSuccess = FALSE
    /\ timers = <<>>
    /\ lastEvent = "none"

CallStep ==
    \E i \in DOMAIN calls :
        \/ ReadStep(i)
        \/ UpdateStep(i)
        \/ PushStep(i)
        \/ EmitStep(i)
        \/ OpenStep(i)
        \/ Return(i)

\* the ContentManager with its callers; no component is mounted in the webview
HostNext ==
    \/ InvokeReadContent
    \/ InvokeUpdateContent
    \/ InvokeOpenContent
    \/ InvokeRefreshContent
    \/ CallStep
    \/ UserSavesFile
    \/ WindowMessage

HostSpec == Init /\ [][HostNext]_vars

\* the hook with the two ends of its channel
UINext ==
    \/ Mount
    \/ Unmount
    \/ Rebind
    \/ RefreshAction
    \/ WindowMessage
    \/ Tick
    \/ TimerFires
    \/ HostPosts
    \/ HostReceives

UISpec == Init /\ [][UINext]_vars

\* overlapping refreshContent and updateContent calls on the registered id; one
\* updateContent at a time, so that only a refreshContent can overwrite an update
RaceInvokeRefresh ==
    /\ Len(calls) < MaxOverlap
    /\ Start("refreshContent", customInstructions, Undefined)
    /\ UNCHANGED <<files, activeEditor, lastFsOp, toUI, toHost>>
    /\ UNCHANGED uiVars

RaceInvokeUpdate ==
    /\ Len(calls) < MaxOverlap
    /\ \A j \in DOMAIN calls : calls[j].op # "updateContent"
    /\ \E content \in {Undefined, <<"a">>, <<" ", "a", "\n">>} :
            Start("updateContent", customInstructions, content)
    /\ UNCHANGED <<files, activeEditor, lastFsOp, toUI, toHost>>
    /\ UNCHANGED uiVars

RaceCallStep ==
    \E i \in DOMAIN calls :
        \/ ReadStep(i)
        \/ UpdateStep(i)
        \/ PushStep(i)
        \/ EmitStep(i)
        \/ Return(i)

RaceNext ==
    \/ RaceInvokeRefresh
    \/ RaceInvokeUpdate
    \/ RaceCallStep
    \/ WindowMessage

RaceSpec == Init /\ [][RaceNext]_vars

\* the hook and the ContentManager joined by the channel: refresh requests are
\* dispatched to refreshContent, its messages are delivered to the hook
SystemNext ==
    \/ Mount
    \/ RefreshAction
    \/ DispatchRefresh
    \/ RaceCallStep
    \/ WindowMessage
    \/ Tick
    \/ TimerFires

\* the ContentManager is constructed over whatever the settings directory holds
SystemInit ==
    /\ files \in [Paths -> {Undefined, <<" ", "a", "\n">>}]
    /\ activeEditor = Undefined
    /\ calls = <<>>
    /\ lastFsOp = [kind |-> "none", arg |-> Undefined]
    /\ toUI = <<>>
    /\ toHost = <<>>
    /\ mounted = FALSE
    /\ contentId = customInstructions
    /\ isRefreshing = FALSE
    /\ showRefreshSuccess = FALSE
    /\ timers = <<>>
    /\ lastEvent = "none"

SystemSpec == SystemInit /\ [][SystemNext]_vars

\* a step of a call whose file operation does not fail (ENOENT on deleting an absent file
\* is not a failure of the host)
NoFaultStep(i) ==
    \/ ReadStep(i)
    \/ UpdateStep(i) /\ ~calls'[i].raised
    \/ PushStep(i)
    \/ EmitStep(i)
    \/ Return(i)

LiveCallStep == \E i \in DOMAIN calls : NoFaultStep(i)

\* the joined system without file-system failures and with a hook that stays mounted
\* and bound to the id it was mounted with
LiveNext ==
    \/ Mount
    \/ RefreshAction
    \/ DispatchRefresh
    \/ LiveCallStep
    \/ WindowMessage
    \/ Tick
    \/ TimerFires

\* the host keeps dispatching requests and running ready continuations, the channel delivers
LiveSpec ==
    /\ SystemInit /\ [][LiveNext]_vars
    /\ WF_vars(DispatchRefresh)
    /\ WF_vars(LiveCallStep)
    /\ WF_vars(WindowMessage)
    /\ WF_vars(Tick)
    /\ WF_vars(TimerFires)

\* the hook under an event loop that lets time pass and runs expired timers
UIFairSpec == UISpec /\ WF_vars(Tick) /\ WF_vars(TimerFires)

TypeOK ==
    /\ \A p \in Paths : files[p] \in Strings \cup {Undefined}
    /\ Len(calls) <= MaxCalls
    /\ Len(toUI) <= MaxChan
    /\ Len(toHost) <= MaxChan
    /\ Len(timers) <= MaxTimers
    /\ mounted \in BOOLEAN
    /\ isRefreshing \in BOOLEAN
    /\ showRefreshSuccess \in BOOLEAN

\* ---- properties of the ContentManager ----

Registered(id) == id = customInstructions

\* the updateContent call inside c (c itself, or the one refreshContent awaits) has settled
UpdateSettled(c) ==
    /\ c.op \in {"updateContent", "refreshContent"}
    /\ c.branch # "none"
    /\ c.pc \in {"emit", "done"}

\* C2 as stated: every updateContent call that took the write or the delete branch has
\* issued exactly one state push once it has settled, whatever the file operation did.
C2_PushWhateverOutcome ==
    \A i \in DOMAIN calls : UpdateSettled(calls[i]) => calls[i].pushes = 1

\* C2 amended: an updateContent call that took the write or the delete branch and returned
\* normally (the file operation succeeded, or the deletion failed with "file does not
\* exist") has issued exactly one state push; when the file operation failed otherwise the
\* call raised and issued no state push.
C2_PushOnNormalReturn ==
    \A i \in DOMAIN calls :
        UpdateSettled(calls[i]) =>
            /\ calls[i].raised <=> calls[i].outcome \notin {"ok", "ENOENT"}
            /\ calls[i].pushes = IF calls[i].raised THEN 0 ELSE 1

C2_Witness ==
    \E i \in DOMAIN calls :
        /\ calls[i].op = "updateContent"
        /\ calls[i].pc = "done"
        /\ calls[i].branch = "delete"
        /\ calls[i].outcome = "ENOENT"
        /\ calls[i].pushes = 1

\* a step of a readContent, updateContent or openContent call on an unregistered id
UnknownIdStep ==
    \E i \in DOMAIN calls :
        /\ ~Registered(calls[i].contentId)
        /\ calls[i].op \in {"readContent", "updateContent", "openContent"}
        /\ calls[i].pc # "done"
        /\ Len(calls') = Len(calls)
        /\ calls'[i].pc # calls[i].pc

\* C3: for an unregistered id, readContent returns the empty string, and updateContent and
\* openContent write, delete and create nothing, send no message and no state push, and
\* raise nothing.
C3_UnknownIdNoEffect ==
    /\ [](\A i \in DOMAIN calls :
            (~Registered(calls[i].contentId) /\ calls[i].op # "refreshContent") =>
                /\ ~calls[i].fsMutated
                /\ calls[i].pushes = 0
                /\ calls[i].msgs = 0
                /\ ~calls[i].raised
                /\ (calls[i].op = "readContent" /\ calls[i].pc = "done"
                        => calls[i].result = EmptyString))
    /\ [][UnknownIdStep => UNCHANGED <<files, activeEditor, toUI>>]_vars

C3_Witness ==
    /\ files[customInstructionsFile] = <<"a">>
    /\ \E i \in DOMAIN calls :
        /\ ~Registered(calls[i].contentId)
        /\ calls[i].op = "updateContent"
        /\ calls[i].content = <<" ">>
        /\ calls[i].pc = "done"

\* C4: a readContent(id) that reads the file right after updateContent(id, C) wrote it
\* (C non-blank, no file operation in between) returns exactly C without its leading and
\* trailing white space.
C4_RoundTrip ==
    [][\A i \in DOMAIN calls :
        (/\ calls[i].op = "readContent"
         /\ calls[i].pc = "read"
         /\ Registered(calls[i].contentId)
         /\ lastFsOp.kind = "write"
         /\ Len(calls') = Len(calls)
         /\ calls'[i].pc = "done")
        => calls'[i].result = TrimEnd(TrimStart(lastFsOp.arg))]_vars

C4_Witness ==
    /\ lastFsOp.kind = "write"
    /\ lastFsOp.arg = <<" ", "a", "\n">>
    /\ \E i \in DOMAIN calls :
        /\ calls[i].op = "readContent"
        /\ calls[i].pc = "done"
        /\ ~calls[i].interleaved
        /\ calls[i].result = <<"a">>

\* C5: in the delete branch of updateContent a "file does not exist" failure is swallowed:
\* the call does not raise and the file is absent afterwards, however often the deletion is
\* repeated; any other deletion failure is logged and re-raised.
C5_DeletePolicy ==
    /\ [](\A i \in DOMAIN calls :
            (UpdateSettled(calls[i]) /\ calls[i].branch = "delete") =>
                /\ calls[i].outcome \in {"ok", "ENOENT"} => ~calls[i].raised
                /\ calls[i].outcome \notin {"ok", "ENOENT"} =>
                        /\ calls[i].raised
                        /\ calls[i].logs # <<>>
                        /\ calls[i].logs[Len(calls[i].logs)] = "Error deleting content file")
    /\ [][\A i \in DOMAIN calls :
            (/\ calls[i].pc = "update"
             /\ Len(calls') = Len(calls)
             /\ calls'[i].branch = "delete"
             /\ ~calls'[i].raised)
            => files'[customInstructionsFile] = Undefined]_vars

\* a second deletion in a row has returned normally
C5_Witness ==
    /\ lastFsOp.kind = "unlink"
    /\ files[customInstructionsFile] = Undefined
    /\ \E i \in DOMAIN calls :
        /\ calls[i].op = "updateContent"
        /\ calls[i].content = Undefined
        /\ calls[i].pc = "done"
        /\ calls[i].outcome = "ENOENT"
        /\ ~calls[i].raised

\* C6: a refreshContent(id) call on a registered id that read a text C, non-blank once
\* trimmed, ran without interleaved operations and returned normally has left the file
\* holding exactly the trimmed C and has emitted exactly one contentRefreshed message, for
\* id, with success true.
C6_RefreshNormalizes ==
    \A i \in DOMAIN calls :
        (/\ calls[i].op = "refreshContent"
         /\ calls[i].pc = "done"
         /\ Registered(calls[i].contentId)
         /\ ~calls[i].interleaved
         /\ ~calls[i].raised
         /\ NonBlank(calls[i].content))
        => /\ files[customInstructionsFile] = TrimEnd(TrimStart(calls[i].content))
           /\ calls[i].msgs = 1
           /\ calls[i].success = TRUE

C6_Witness ==
    /\ files[customInstructionsFile] = <<"a">>
    /\ \E i \in DOMAIN calls :
        /\ calls[i].op = "refreshContent"
        /\ calls[i].pc = "done"
        /\ ~calls[i].interleaved
        /\ calls[i].content = <<" ", "a", "\n">>
        /\ calls[i].msgs = 1

\* ---- properties of useRefreshableContent ----

\* the window delivers a message to the mounted hook
Delivered == mounted /\ toUI # <<>> /\ toUI' = Tail(toUI)

\* the message being delivered is a contentRefreshed response for the bound id
ForBoundId(m) == m.type = "contentRefreshed" /\ m.contentId = contentId

\* a pending timer expires
Expired == timers # <<>> /\ Len(timers') < Len(timers)

\* C1 as stated: a timer started before the bound id changed or the component unmounted is
\* cancelled, so its expiry after that point never changes showRefreshSuccess.
C1_StaleTimerCancelled ==
    [][(Expired /\ timers[1].origin # "current")
            => showRefreshSuccess' = showRefreshSuccess]_vars

\* C7: the refresh action, from any state of a mounted hook, sets isRefreshing in the same
\* step in which it sends exactly one refreshContent request carrying the bound id, and
\* leaves showRefreshSuccess as it was.
C7_RefreshActionSynchronous ==
    [][toHost' # toHost /\ Len(toHost') >= Len(toHost) =>
        /\ isRefreshing' = TRUE
        /\ toHost' = Append(toHost, [type |-> "refreshContent", contentId |-> contentId])
        /\ showRefreshSuccess' = showRefreshSuccess
        /\ contentId' = contentId]_vars

\* the action ran while a refresh was already pending and the banner was showing
C7_Witness ==
    /\ lastEvent = "refresh"
    /\ isRefreshing
    /\ showRefreshSuccess
    /\ toHost # <<>>
    /\ toHost[Len(toHost)].contentId = contentId

\* C8: a mounted hook that receives a contentRefreshed response for its bound id with
\* success true clears isRefreshing, sets showRefreshSuccess and starts a timer; the timer
\* expires when 3000 ms have elapsed and then resets showRefreshSuccess and changes
\* nothing else; while the banner shows, such a timer is pending.
C8_SuccessThenExpiry ==
    /\ [][(Delivered /\ ForBoundId(Head(toUI)) /\ Head(toUI).success) =>
            /\ isRefreshing' = FALSE
            /\ showRefreshSuccess' = TRUE
            /\ timers' = Append(timers, [elapsed |-> 0, origin |-> "current"])]_vars
    /\ [][(Expired /\ timers[1].origin # "unmounted") =>
            /\ timers[1].elapsed = 3000
            /\ showRefreshSuccess' = FALSE
            /\ UNCHANGED <<isRefreshing, contentId, mounted, toUI, toHost>>]_vars
    /\ [](mounted /\ showRefreshSuccess =>
            \E k \in DOMAIN timers :
                timers[k].origin # "unmounted" /\ timers[k].elapsed <= 3000)

\* the timer of the latest success has expired on the hook that started it
C8_Witness ==
    /\ lastEvent = "timer"
    /\ mounted
    /\ ~isRefreshing
    /\ ~showRefreshSuccess
    /\ timers = <<>>

\* C9: a message that is not a contentRefreshed response for the bound id leaves
\* isRefreshing and showRefreshSuccess as they were and starts no timer.
C9_OtherMessagesIgnored ==
    [][(Delivered /\ ~ForBoundId(Head(toUI)))
            => UNCHANGED <<isRefreshing, showRefreshSuccess, timers>>]_vars

\* a response for another id was dropped while a refresh was pending
C9_Witness ==
    /\ lastEvent = "ignored"
    /\ mounted
    /\ isRefreshing

\* C10 as stated: right after the bound id changes the hook is Idle for the new id.
C10_RebindResets ==
    [][(mounted /\ mounted' /\ contentId' # contentId) => isRefreshing' = FALSE]_vars

\* ---- further properties of the ContentManager ----

\* C11: every contentRefreshed message the ContentManager has emitted carries success
\* true, whatever calls ran and whichever file operations failed.
C11_OnlySuccessEmitted ==
    /\ \A k \in DOMAIN toUI :
            toUI[k].type = "contentRefreshed" => toUI[k].success = TRUE
    /\ \A i \in DOMAIN calls : calls[i].msgs > 0 => calls[i].success = TRUE

\* a message is queued that a call emitted after its deletion had failed with ENOENT
C11_Witness ==
    /\ toUI # <<>>
    /\ toUI[Len(toUI)].type = "contentRefreshed"
    /\ \E i \in DOMAIN calls :
        /\ calls[i].op = "refreshContent"
        /\ calls[i].pc = "done"
        /\ calls[i].outcome = "ENOENT"
        /\ calls[i].msgs = 1

\* C19: a refreshContent(id) call that found no non-blank text (id unregistered, file absent,
\* or file blank), ran without interleaved operations and returned normally has left no file
\* at the resolved path (nothing touched for an unregistered id) and has emitted exactly one
\* contentRefreshed message, for id, with success true.
C19_BlankRefreshSucceeds ==
    \A i \in DOMAIN calls :
        (/\ calls[i].op = "refreshContent"
         /\ calls[i].pc = "done"
         /\ ~calls[i].interleaved
         /\ ~calls[i].raised
         /\ TrimEnd(TrimStart(calls[i].content)) = EmptyString)
        => /\ calls[i].msgs = 1
           /\ calls[i].success = TRUE
           /\ IF calls[i].contentId = customInstructions
              THEN files[customInstructionsFile] = Undefined
              ELSE ~calls[i].fsMutated /\ calls[i].pushes = 0

\* a blank file has been deleted by the refresh
C19_Witness ==
    /\ files[customInstructionsFile] = Undefined
    /\ \E i \in DOMAIN calls :
        /\ calls[i].op = "refreshContent"
        /\ calls[i].pc = "done"
        /\ ~calls[i].interleaved
        /\ calls[i].content = <<" ">>
        /\ calls[i].fsMutated
        /\ calls[i].msgs = 1

\* ---- further properties of useRefreshableContent ----

\* C14: a contentRefreshed response for the bound id with success false clears
\* isRefreshing, leaves showRefreshSuccess as it was and starts no timer.
C14_FailureResponse ==
    [][(Delivered /\ ForBoundId(Head(toUI)) /\ ~Head(toUI).success) =>
            /\ isRefreshing' = FALSE
            /\ UNCHANGED <<showRefreshSuccess, timers>>]_vars

C14_Witness ==
    /\ lastEvent = "failure"
    /\ mounted
    /\ ~isRefreshing
    /\ ~showRefreshSuccess
    /\ timers = <<>>

\* C15 as stated: after every success response for the bound id the banner stays on for
\* the full 3000 ms that follow it, also while the timer of an earlier success is pending.
C15_BannerFullDuration ==
    (/\ mounted
     /\ timers # <<>>
     /\ timers[Len(timers)].origin # "unmounted"
     /\ timers[Len(timers)].elapsed < 3000)
    => showRefreshSuccess

\* C18: whenever the banner is on it goes off again, provided time passes and expired
\* timers run; this includes a change of the bound id and further responses while it shows.
C18_BannerTransient == showRefreshSuccess ~> ~showRefreshSuccess

\* the banner is on after the bound id changed; only timers started before the change remain
C18_Witness ==
    /\ mounted
    /\ showRefreshSuccess
    /\ timers # <<>>
    /\ \A k \in DOMAIN timers : timers[k].origin = "rebound"

\* ---- overlapping calls ----

\* C13: a refreshContent call on the registered id goes read, file operation, state push,
\* contentRefreshed, in that order, whatever other calls interleave with it: it has emitted
\* its message only after its own state push, pushed only after its own write or delete
\* has completed, and written or deleted only after its read.
C13_OrderWithinCall ==
    \A i \in DOMAIN calls :
        (calls[i].op = "refreshContent" /\ calls[i].contentId = customInstructions) =>
            /\ calls[i].msgs <= 1
            /\ calls[i].pushes <= 1
            /\ calls[i].msgs = 1 => calls[i].pushes = 1
            /\ calls[i].pushes = 1 => calls[i].outcome \in {"ok", "ENOENT"}
            /\ calls[i].branch # "none" => calls[i].content # Undefined
            /\ calls[i].pc = "read" => calls[i].branch = "none" /\ calls[i].pushes = 0

\* a refreshContent call has completed all four steps with another call interleaved
C13_Witness ==
    /\ Len(calls) = 2
    /\ \E i \in DOMAIN calls :
        /\ calls[i].op = "refreshContent"
        /\ calls[i].pc = "done"
        /\ calls[i].interleaved
        /\ calls[i].fsMutated
        /\ calls[i].pushes = 1
        /\ calls[i].msgs = 1

\* what the file holds once updateContent(id, text) has returned normally
AfterUpdate(text) ==
    IF text # Undefined /\ TrimEnd(TrimStart(text)) # EmptyString
    THEN TrimEnd(TrimStart(text)) ELSE Undefined

\* the text a read of the file returns
FileText ==
    IF files[customInstructionsFile] = Undefined
    THEN EmptyString ELSE files[customInstructionsFile]

\* C17 as stated: when an updateContent has completed while a refreshContent on the same
\* id was in flight, the file reflects the update once the refreshContent completes too.
C17_UpdateNeverUndone ==
    [][\A i, j \in DOMAIN calls :
        (/\ calls[i].op = "updateContent"
         /\ calls[i].pc = "done"
         /\ ~calls[i].raised
         /\ calls[j].op = "refreshContent"
         /\ calls[j].pc = "emit"
         /\ Len(calls') = Len(calls)
         /\ calls'[j].pc = "done")
        => files'[customInstructionsFile] = AfterUpdate(calls[i].content)]_vars

\* C17 amended: refreshContent hands to its file operation exactly the text the file held
\* when it read it, and that operation leaves the file holding the trimmed form of that text
\* (absent when blank), whatever was written in between.
C17_RefreshWritesBackWhatItRead ==
    [][\A i \in DOMAIN calls :
        (/\ calls[i].op = "refreshContent"
         /\ calls[i].contentId = customInstructions
         /\ Len(calls') = Len(calls))
        => /\ (calls[i].pc = "read" /\ calls'[i].pc = "update")
                => calls'[i].content = FileText
           /\ (calls[i].pc = "update" /\ calls'[i].pc = "push")
                => files'[customInstructionsFile] = AfterUpdate(calls[i].content)]_vars

\* an update whose write completed before the overlapping refresh read the file is in place
C17_Witness ==
    \E i, j \in DOMAIN calls :
        /\ calls[i].op = "updateContent"
        /\ calls[i].pc = "done"
        /\ calls[i].content = <<" ", "a", "\n">>
        /\ calls[j].op = "refreshContent"
        /\ calls[j].pc = "done"
        /\ calls[j].interleaved
        /\ calls[j].content = <<"a">>
        /\ calls[j].fsMutated
        /\ files[customInstructionsFile] = <<"a">>

\* C12: a refreshContent call whose write fails, or whose unlink fails with anything but
\* ENOENT, raises to its caller without pushing state or posting contentRefreshed, and the
\* hook's isRefreshing, once true, turns false only on delivery of a contentRefreshed
\* message for the bound id.
C12_FailedRefreshLeavesPending ==
    /\ [](\A i \in DOMAIN calls :
            (/\ calls[i].op = "refreshContent"
             /\ calls[i].outcome \in {"EACCES", "EPERM"})
            => /\ calls[i].raised
               /\ calls[i].pc = "done"
               /\ calls[i].msgs = 0
               /\ calls[i].pushes = 0)
    /\ [][(isRefreshing /\ ~isRefreshing')
            => (Delivered /\ ForBoundId(Head(toUI)))]_vars

\* the request was dispatched, its call raised, nothing is in flight: the hook still waits
C12_Witness ==
    /\ mounted
    /\ isRefreshing
    /\ toHost = <<>>
    /\ toUI = <<>>
    /\ calls # <<>>
    /\ \A i \in DOMAIN calls :
            /\ calls[i].op = "refreshContent"
            /\ calls[i].contentId = contentId
            /\ calls[i].outcome \in {"EACCES", "EPERM"}
            /\ calls[i].raised
            /\ calls[i].pc = "done"

\* C16: every refresh action sends one more request and leaves isRefreshing true, and every
\* delivery of a contentRefreshed message for the bound id leaves isRefreshing false, however
\* many requests are still outstanding.
C16_NoRequestCounting ==
    [][/\ (Len(toHost') > Len(toHost))
            => /\ toHost' = Append(toHost, [type |-> "refreshContent", contentId |-> contentId])
               /\ isRefreshing'
       /\ (Delivered /\ ForBoundId(Head(toUI))) => ~isRefreshing']_vars

\* the first response has been handled while a request sent before it is still unanswered
C16_Witness ==
    /\ mounted
    /\ lastEvent \in {"success", "failure"}
    /\ ~isRefreshing
    /\ toHost # <<>>
    /\ Head(toHost).contentId = contentId

\* C20: with file operations that succeed, a channel that delivers and a hook that stays
\* mounted on one id, isRefreshing = TRUE always leads to isRefreshing = FALSE.
C20_RoundTripCompletes == isRefreshing ~> ~isRefreshing

\* a refresh round trip has completed: the response was handled and nothing is in flight
C20_Witness ==
    /\ mounted
    /\ lastEvent = "success"
    /\ ~isRefreshing
    /\ toHost = <<>>
    /\ toUI = <<>>
    /\ \A i \in DOMAIN calls : calls[i].pc = "done" /\ calls[i].msgs = 1

====
